---- MODULE Spec2Model ----
(***************************************************************************)
(* Model of dataprep/eda/basic/viz_uni.py: the UniViz chart renderer.      *)
(*                                                                         *)
(* State: the six render-success flags of a UniViz object, the Category20c *)
(* palette table of bokeh.palettes that pie_viz reads, and for each caller *)
(* thread the arguments of its latest call and what the call produced (the *)
(* derived table behind the chart, or the exception).                      *)
(*                                                                         *)
(* Spec explores calls from two threads in every order and interleaving,   *)
(* each call split at the assignment of its flag; SpecCall explores one    *)
(* call on a fresh renderer over all the bounded inputs.                   *)
(*                                                                         *)
(* Floating-point values are modelled as exact fractions num/den; den = 0  *)
(* stands for the non-finite results of numpy/pandas division by zero      *)
(* (num = 0: nan, num > 0: +inf, num < 0: -inf).  Angles are kept as the   *)
(* coefficient of pi.                                                      *)
(***************************************************************************)
EXTENDS Integers, Sequences, FiniteSets, TLC

VARIABLES flags, palette, call, ret

vars == <<flags, palette, call, ret>>

(***************************************************************************)
(* Bounds of the explored inputs.                                          *)
(***************************************************************************)
MaxCats == 3
MaxCount == 2
MaxBars == 4
MaxNegBars == 2
MaxMissing == 1
MaxBins == 2
MaxRows == 3
MaxBoxCats == 2

(***************************************************************************)
(* Class attributes of UniViz.                                             *)
(***************************************************************************)
max_xlab_len == 15
max_num_legend == 7
num_x_vals == 50
max_bar_labels == 30

FlagNames == {"pie", "barplot", "box", "hist", "qqnorm", "kde"}

Threads == {"t1", "t2"}

(***************************************************************************)
(* Arithmetic helpers.                                                     *)
(***************************************************************************)
Min(a, b) == IF a < b THEN a ELSE b

Max(a, b) == IF a > b THEN a ELSE b

Range(s) == {s[i] : i \in DOMAIN s}

\* int / int as numpy, pandas and Python float division leave it: a fraction
\* with a non-negative denominator; den = 0 is nan or +-inf.
TrueDiv(a, b) == IF b < 0 THEN [num |-> 0 - a, den |-> 0 - b] ELSE [num |-> a, den |-> b]

IsNaN(q) == q.den = 0 /\ q.num = 0

IsInf(q) == q.den = 0 /\ q.num # 0

IsFinite(q) == q.den # 0

Sign(n) == IF n > 0 THEN 1 ELSE IF n < 0 THEN 0 - 1 ELSE 0

\* q * k and q / k for an integer k > 0
MulInt(q, k) == [num |-> q.num * k, den |-> q.den]

DivInt(q, k) == [num |-> q.num, den |-> q.den * k]

RatAdd(p, q) ==
    IF IsNaN(p) \/ IsNaN(q) THEN [num |-> 0, den |-> 0]
    ELSE IF IsInf(p) /\ IsInf(q)
         THEN (IF Sign(p.num) = Sign(q.num) THEN [num |-> Sign(p.num), den |-> 0]
               ELSE [num |-> 0, den |-> 0])
    ELSE IF IsInf(p) THEN [num |-> Sign(p.num), den |-> 0]
    ELSE IF IsInf(q) THEN [num |-> Sign(q.num), den |-> 0]
    ELSE [num |-> p.num * q.den + q.num * p.den, den |-> p.den * q.den]

RatNeg(q) == [num |-> 0 - q.num, den |-> q.den]

RatSub(p, q) == RatAdd(p, RatNeg(q))

\* IEEE comparisons: anything compared with nan is false
RatEq(p, q) ==
    IF IsNaN(p) \/ IsNaN(q) THEN FALSE
    ELSE IF IsInf(p) \/ IsInf(q) THEN IsInf(p) /\ IsInf(q) /\ Sign(p.num) = Sign(q.num)
    ELSE p.num * q.den = q.num * p.den

RatGt(p, q) ==
    IF IsNaN(p) \/ IsNaN(q) THEN FALSE
    ELSE IF IsInf(p) THEN p.num > 0 /\ ~(IsInf(q) /\ q.num > 0)
    ELSE IF IsInf(q) THEN q.num < 0
    ELSE p.num * q.den > q.num * p.den

FromInt(n) == [num |-> n, den |-> 1]

RECURSIVE RatSum(_)
RatSum(s) == IF s = <<>> THEN FromInt(0) ELSE RatAdd(s[1], RatSum(Tail(s)))

RECURSIVE SumCount(_)
SumCount(rows) == IF rows = <<>> THEN 0 ELSE rows[1].count + SumCount(Tail(rows))

(***************************************************************************)
(* Python slicing s[start:stop] with negative indices counted from the end.*)
(***************************************************************************)
PyIndex(i, n) == IF i < 0 THEN Max(i + n, 0) ELSE Min(i, n)

PySlice(s, start, stop) ==
    LET lo == PyIndex(start, Len(s))
        hi == PyIndex(stop, Len(s))
    IN  IF hi > lo THEN SubSeq(s, lo + 1, hi) ELSE <<>>

(***************************************************************************)
(* bokeh.palettes.d3["Category20c"]: palette size -> colour list.          *)
(***************************************************************************)
Category20c_20 ==
    << "#3182bd", "#6baed6", "#9ecae1", "#c6dbef", "#e6550d", "#fd8d3c", "#fdae6b",
       "#fdd0a2", "#31a354", "#74c476", "#a1d99b", "#c7e9c0", "#756bb1", "#9e9ac8",
       "#bcbddc", "#dadaeb", "#636363", "#969696", "#bdbdbd", "#d9d9d9" >>

Category20c == [k \in 3..20 |-> SubSeq(Category20c_20, 1, k)]

\* color_list.update({1: [...], 2: [...]}) on the table that was looked up
PaletteUpdate(p) ==
    [k \in (DOMAIN p) \cup {1, 2} |->
        IF k = 1 THEN << "#084594" >>
        ELSE IF k = 2 THEN << "#084594", "#9ecae1" >>
        ELSE p[k]]

\* color_list[20] * (n // 20 + 1), then [0:n]
ColourList(p, n) == [i \in 1..n |-> p[20][((i - 1) % Len(p[20])) + 1]]

(***************************************************************************)
(* Outcomes of a call.                                                     *)
(***************************************************************************)
NoCall == [op |-> "none"]

NoRet == [status |-> "none"]

Raised(exc) == [status |-> "raised", exc |-> exc]

Running(chart) == [status |-> "running", chart |-> chart]

Idle(t) == ret[t].status # "running"

(***************************************************************************)
(* pie_viz                                                                 *)
(***************************************************************************)
\* pd.Series(data).dropna().reset_index(name="count"): rows cat, count
DropNa(data) ==
    LET kept == SelectSeq(data, LAMBDA e : ~e.null)
    IN  [i \in 1..Len(kept) |-> [cat |-> kept[i].cat, count |-> kept[i].count]]

Ordered(rows, ascending) ==
    \A i \in 1..(Len(rows) - 1) :
        IF ascending THEN rows[i].count <= rows[i + 1].count
        ELSE rows[i].count >= rows[i + 1].count

Perms(n) == {p \in [1..n -> 1..n] : \A i, j \in 1..n : p[i] = p[j] => i = j}

\* DataFrame.sort_values(by=["count"], ascending=ascending): the default
\* kind is quicksort, which does not fix the order of equal counts
SortValues(df, ascending) ==
    {s \in {[i \in 1..Len(df) |-> df[p[i]]] : p \in Perms(Len(df))} :
        Ordered(s, ascending)}

\* the remainder summed from one row too far
OtherCountSkipsOne(data_sorted, bars) ==
    SumCount(PySlice(data_sorted, bars + 1, Len(data_sorted)))

\* data_sorted["count"][bars:].sum()
OtherCount(data_sorted, bars) == SumCount(PySlice(data_sorted, bars, Len(data_sorted)))

\* the rows kept for display, before the derived columns
PieRows(data_sorted, bars) ==
    IF Len(data_sorted) > bars
    THEN Append(PySlice(data_sorted, 0, bars),
                [cat |-> "Other", count |-> OtherCount(data_sorted, bars)])
    ELSE data_sorted

PiePercen(count, total_count) == MulInt(TrueDiv(count, total_count), 100)

\* (percen / 100) * 2 * math.pi, as the coefficient of pi
PieAngle(percen) == MulInt(DivInt(percen, 100), 2)

PieChart(data_sorted, bars, p) ==
    LET data_df == PieRows(data_sorted, bars)
        total_count == SumCount(data_df)
        color_list == ColourList(p, Len(data_df))
    IN  [rows |-> [i \in 1..Len(data_df) |->
                    [cat |-> data_df[i].cat,
                     count |-> data_df[i].count,
                     percen |-> PiePercen(data_df[i].count, total_count),
                     angle |-> PieAngle(PiePercen(data_df[i].count, total_count)),
                     colour |-> color_list[i]]],
         legend |-> Len(data_df) <= max_num_legend]

\* lines 65-122: everything up to the flag
pie_viz(t, data, bars, ascending) ==
    /\ Idle(t)
    /\ \E data_sorted \in SortValues(DropNa(data), ascending) :
          /\ palette' = PaletteUpdate(palette)
          /\ ret' = [ret EXCEPT ![t] = Running(PieChart(data_sorted, bars, palette'))]
    /\ call' = [call EXCEPT ![t] =
                  [op |-> "pie", data |-> data, bars |-> bars, ascending |-> ascending]]
    /\ UNCHANGED flags

\* lines 123-124: self.pie = True; return plot_figure
pie_viz_return(t) ==
    /\ ret[t].status = "running"
    /\ call[t].op = "pie"
    /\ flags' = [flags EXCEPT !["pie"] = TRUE]
    /\ ret' = [ret EXCEPT ![t] = [status |-> "ok", chart |-> ret[t].chart]]
    /\ UNCHANGED <<palette, call>>

(***************************************************************************)
(* bar_viz                                                                 *)
(***************************************************************************)
DigitChars == << "0", "1", "2", "3", "4", "5", "6", "7", "8", "9" >>

RECURSIVE Digits(_)
Digits(n) == IF n < 10 THEN << DigitChars[n + 1] >>
             ELSE Append(Digits(n \div 10), DigitChars[(n % 10) + 1])

\* str(x[0]) of a dictionary key: a string is itself, an int its decimal digits
Str(key) == IF key.kind = "str" THEN key.chars ELSE Digits(key.val)

\* sorted(data.items(), key=itemgetter(1), reverse=(not ascending)): stable,
\* equal counts keep their order in the mapping also when reversed
SortedRank(items, i, ascending) ==
    1 + Cardinality({j \in DOMAIN items :
            \/ (IF ascending THEN items[j].count < items[i].count
                ELSE items[j].count > items[i].count)
            \/ (items[j].count = items[i].count /\ j < i)})

Sorted(items, ascending) ==
    [r \in 1..Len(items) |->
        items[CHOOSE i \in DOMAIN items : SortedRank(items, i, ascending) = r]]

\* a label cut after max_xlab_len characters instead of one fewer
BarLabelKeepsAll(key) ==
    IF Len(Str(key)) > max_xlab_len
    THEN PySlice(Str(key), 0, max_xlab_len) \o << ".", ".", "." >>
    ELSE Str(key)

\* the label of one category in cat_list
BarLabel(key) ==
    IF Len(Str(key)) > max_xlab_len
    THEN PySlice(Str(key), 0, max_xlab_len - 1) \o << ".", ".", "." >>
    ELSE Str(key)

\* the total taken over the displayed bars only
BarTotalOfShown(data, data_sorted, miss_cnt) == SumCount(data_sorted) + miss_cnt

\* total = sum([y for (x, y) in data.items()]) + miss_cnt
BarTotal(data, data_sorted, miss_cnt) == SumCount(data) + miss_cnt

BarChart(data, miss_cnt, bars, ascending) ==
    LET data_sorted == PySlice(Sorted(data, ascending), 0, bars)
        cat_list == [i \in 1..Len(data_sorted) |-> BarLabel(data_sorted[i].key)]
        total == BarTotal(data, data_sorted, miss_cnt)
    IN  [rows |-> [i \in 1..Len(data_sorted) |->
                    [count |-> data_sorted[i].count,
                     cat |-> cat_list[i],
                     percen |-> MulInt(TrueDiv(data_sorted[i].count, total), 100)]],
         factors |-> cat_list,
         title_missing |-> miss_cnt > 0,
         caption |-> IF Len(data) > bars THEN << Len(data_sorted), Len(data) >> ELSE << >>,
         hide_labels |-> bars > max_bar_labels]

\* what lines 144-199 end in: the exception or the chart
BarOutcome(data, missing, bars, ascending) ==
    IF missing = << >> THEN Raised("IndexError")
    ELSE IF missing[1] > 0 /\ SumCount(data) + missing[1] = 0 THEN Raised("ZeroDivisionError")
    ELSE Running(BarChart(data, missing[1], bars, ascending))

\* the flag set on entry, before anything can raise
bar_viz_flag_first(t, data, missing, bars, ascending) ==
    /\ Idle(t)
    /\ ret' = [ret EXCEPT ![t] = BarOutcome(data, missing, bars, ascending)]
    /\ call' = [call EXCEPT ![t] =
                  [op |-> "barplot", data |-> data, missing |-> missing, bars |-> bars,
                   ascending |-> ascending]]
    /\ flags' = [flags EXCEPT !["barplot"] = TRUE]
    /\ UNCHANGED palette

\* lines 144-200: everything up to the flag
bar_viz(t, data, missing, bars, ascending) ==
    /\ Idle(t)
    /\ ret' = [ret EXCEPT ![t] = BarOutcome(data, missing, bars, ascending)]
    /\ call' = [call EXCEPT ![t] =
                  [op |-> "barplot", data |-> data, missing |-> missing, bars |-> bars,
                   ascending |-> ascending]]
    /\ UNCHANGED <<flags, palette>>

\* lines 201-202: self.barplot = True; return plot_figure
bar_viz_return(t) ==
    /\ ret[t].status = "running"
    /\ call[t].op = "barplot"
    /\ flags' = [flags EXCEPT !["barplot"] = TRUE]
    /\ ret' = [ret EXCEPT ![t] = [status |-> "ok", chart |-> ret[t].chart]]
    /\ UNCHANGED <<palette, call>>

(***************************************************************************)
(* hist_viz                                                                *)
(***************************************************************************)
\* "percen": hist_array / orig_df_len * 100
HistPercen(freq, orig_df_len) == MulInt(TrueDiv(freq, orig_df_len), 100)

HistChart(hist_array, bins_array, miss_cnt, orig_df_len) ==
    LET left == PySlice(bins_array, 0, 0 - 1)
        right == PySlice(bins_array, 1, Len(bins_array))
    IN  [rows |-> [i \in 1..Len(hist_array) |->
                    [left |-> left[i],
                     right |-> right[i],
                     freq |-> hist_array[i],
                     percen |-> HistPercen(hist_array[i], orig_df_len)]],
         ticker |-> bins_array,
         title_missing |-> miss_cnt > 0]

HistOutcome(hist_array, bins_array, missing, orig_df_len) ==
    IF missing = << >> THEN Raised("IndexError")
    ELSE IF missing[1] > 0 /\ orig_df_len = 0 THEN Raised("ZeroDivisionError")
    ELSE IF Len(PySlice(bins_array, 0, 0 - 1)) # Len(hist_array) THEN Raised("ValueError")
    ELSE Running(HistChart(hist_array, bins_array, missing[1], orig_df_len))

\* lines 223-278: everything up to the flag
hist_viz(t, hist_array, bins_array, missing, orig_df_len) ==
    /\ Idle(t)
    /\ ret' = [ret EXCEPT ![t] = HistOutcome(hist_array, bins_array, missing, orig_df_len)]
    /\ call' = [call EXCEPT ![t] =
                  [op |-> "hist", hist_array |-> hist_array, bins_array |-> bins_array,
                   missing |-> missing, orig_df_len |-> orig_df_len]]
    /\ UNCHANGED <<flags, palette>>

\* lines 279-280: self.hist = True; return plot_figure
hist_viz_return(t) ==
    /\ ret[t].status = "running"
    /\ call[t].op = "hist"
    /\ flags' = [flags EXCEPT !["hist"] = TRUE]
    /\ ret' = [ret EXCEPT ![t] = [status |-> "ok", chart |-> ret[t].chart]]
    /\ UNCHANGED <<palette, call>>

(***************************************************************************)
(* qqnorm_viz                                                              *)
(***************************************************************************)
SeqMin(s) == CHOOSE x \in Range(s) : \A y \in Range(s) : x <= y

SeqMax(s) == CHOOSE x \in Range(s) : \A y \in Range(s) : x >= y

QQChart(theory, sample) ==
    LET all_values == theory \o sample
    IN  [x |-> theory,
         y |-> sample,
         line |-> << << SeqMin(all_values), SeqMin(all_values) >>,
                     << SeqMax(all_values), SeqMax(all_values) >> >>]

\* in_data["theory"], in_data["sample"]; np.min of an empty array raises
QQOutcome(in_data) ==
    IF "theory" \notin DOMAIN in_data \/ "sample" \notin DOMAIN in_data
    THEN Raised("KeyError")
    ELSE IF in_data["theory"] \o in_data["sample"] = << >> THEN Raised("ValueError")
    ELSE Running(QQChart(in_data["theory"], in_data["sample"]))

qqnorm_viz(t, in_data) ==
    /\ Idle(t)
    /\ ret' = [ret EXCEPT ![t] = QQOutcome(in_data)]
    /\ call' = [call EXCEPT ![t] = [op |-> "qqnorm", in_data |-> in_data]]
    /\ UNCHANGED <<flags, palette>>

\* lines 310-311: self.qqnorm = True; return plot
qqnorm_viz_return(t) ==
    /\ ret[t].status = "running"
    /\ call[t].op = "qqnorm"
    /\ flags' = [flags EXCEPT !["qqnorm"] = TRUE]
    /\ ret' = [ret EXCEPT ![t] = [status |-> "ok", chart |-> ret[t].chart]]
    /\ UNCHANGED <<palette, call>>

(***************************************************************************)
(* hist_kde_viz                                                            *)
(***************************************************************************)
\* data[~np.isnan(data)]
NotNaN(data) ==
    LET kept == SelectSeq(data, LAMBDA e : ~e.null)
    IN  [i \in 1..Len(kept) |-> kept[i].val]

KdeChart(data) ==
    [x_lo |-> SeqMin(data), x_hi |-> SeqMax(data), n_x |-> num_x_vals]

\* np.min of an empty sample raises; on a sample with fewer than two
\* distinct values scipy's gaussian_kde raises or not, depending on its
\* version: both outcomes are kept
KdeOutcomes(data) ==
    IF NotNaN(data) = << >> THEN {Raised("ValueError")}
    ELSE IF Cardinality(Range(NotNaN(data))) < 2
         THEN {Raised("LinAlgError"), Running(KdeChart(NotNaN(data)))}
    ELSE {Running(KdeChart(NotNaN(data)))}

hist_kde_viz(t, data) ==
    /\ Idle(t)
    /\ \E outcome \in KdeOutcomes(data) : ret' = [ret EXCEPT ![t] = outcome]
    /\ call' = [call EXCEPT ![t] = [op |-> "kde", data |-> data]]
    /\ UNCHANGED <<flags, palette>>

\* lines 361-362: self.kde = True; return plot_figure
hist_kde_viz_return(t) ==
    /\ ret[t].status = "running"
    /\ call[t].op = "kde"
    /\ flags' = [flags EXCEPT !["kde"] = TRUE]
    /\ ret' = [ret EXCEPT ![t] = [status |-> "ok", chart |-> ret[t].chart]]
    /\ UNCHANGED <<palette, call>>

(***************************************************************************)
(* box_viz                                                                 *)
(***************************************************************************)
\* pd.DataFrame(data).transpose(): a key some record lacks is a nan cell,
\* a key no record has is no column at all
HasColumn(data, key) == \E i \in DOMAIN data : key \in DOMAIN data[i].summary

Cell(data, i, key) ==
    IF key \in DOMAIN data[i].summary THEN FromInt(data[i].summary[key])
    ELSE [num |-> 0, den |-> 0]

\* positions counted from 0
BoxXFromZero(i) == i - 1

\* zip(df.columns, range(1, len(df.columns) + 1))
BoxX(i) == i

\* df["x"] - box_width / 2, df["x"] + box_width / 2
BoxX0(x, box_width) == RatSub(FromInt(x), DivInt(box_width, 2))

BoxX1(x, box_width) == RatAdd(FromInt(x), DivInt(box_width, 2))

\* (df["tf"] + df["sf"]) / 2
BoxY(tf, sf) == DivInt(RatAdd(tf, sf), 2)

\* df["sf"] - df["tf"]
BoxH(tf, sf) == RatSub(sf, tf)

\* [series["x"]] * len(series["outliers"]) against series["outliers"]
BoxOutliers(x, outliers) == [j \in 1..Len(outliers) |-> [x |-> x, y |-> outliers[j]]]

BoxChart(data, box_width) ==
    [rows |-> [i \in 1..Len(data) |->
                [cat |-> data[i].cat,
                 x |-> BoxX(i),
                 y |-> BoxY(Cell(data, i, "tf"), Cell(data, i, "sf")),
                 w |-> box_width,
                 x0 |-> BoxX0(BoxX(i), box_width),
                 x1 |-> BoxX1(BoxX(i), box_width),
                 h |-> BoxH(Cell(data, i, "tf"), Cell(data, i, "sf")),
                 lw |-> Cell(data, i, "lw"),
                 tf |-> Cell(data, i, "tf"),
                 fy |-> Cell(data, i, "fy"),
                 sf |-> Cell(data, i, "sf"),
                 uw |-> Cell(data, i, "uw"),
                 outliers |-> BoxOutliers(BoxX(i), data[i].outliers)]],
     ticks |-> [i \in 1..Len(data) |-> BoxX(i)]]

\* df["tf"], df["sf"] of a frame without that column raise KeyError
BoxOutcome(data, box_width) ==
    IF ~HasColumn(data, "tf") \/ ~HasColumn(data, "sf") THEN Raised("KeyError")
    ELSE Running(BoxChart(data, box_width))

box_viz(t, data, box_width) ==
    /\ Idle(t)
    /\ ret' = [ret EXCEPT ![t] = BoxOutcome(data, box_width)]
    /\ call' = [call EXCEPT ![t] = [op |-> "box", data |-> data, box_width |-> box_width]]
    /\ UNCHANGED <<flags, palette>>

\* lines 493-495: self.box = True; return plot
box_viz_return(t) ==
    /\ ret[t].status = "running"
    /\ call[t].op = "box"
    /\ flags' = [flags EXCEPT !["box"] = TRUE]
    /\ ret' = [ret EXCEPT ![t] = [status |-> "ok", chart |-> ret[t].chart]]
    /\ UNCHANGED <<palette, call>>

(***************************************************************************)
(* The inputs explored.                                                    *)
(***************************************************************************)
PieCats == << "x", "y", "z", "w", "v", "u" >>

\* a category -> count mapping in insertion order; null marks a nan count
PieData ==
    UNION {{d \in [1..n -> [cat : Range(PieCats), count : 0..MaxCount, null : BOOLEAN]] :
               \A i \in 1..n : d[i].cat = PieCats[i] /\ (d[i].null => d[i].count = 0)} :
           n \in 0..MaxCats}

BarsRange == (0 - MaxNegBars)..MaxBars

\* Example 2 of the specification
PieExample ==
    [data |-> [i \in 1..4 |-> [cat |-> PieCats[i], count |-> 1, null |-> FALSE]],
     bars |-> 2, ascending |-> FALSE]

PieArgs == [data : PieData, bars : BarsRange, ascending : BOOLEAN] \cup {PieExample}

Letters ==
    << "a", "b", "c", "d", "e", "f", "g", "h", "i", "j", "k", "l", "m",
       "n", "o", "p", "q", "r", "s", "t", "u", "v", "w", "x", "y", "z" >>

Word(off, n) == [i \in 1..n |-> Letters[off + i]]

StrKey(chars) == [kind |-> "str", chars |-> chars, val |-> 0]

IntKey(n) == [kind |-> "int", chars |-> << >>, val |-> n]

\* keys of 16, 15, 2 (an int), 1, 17 and 14 characters
BarKeys ==
    << StrKey(Word(0, 16)), StrKey(Word(1, 15)), IntKey(42), StrKey(Word(2, 1)),
       StrKey(Word(3, 17)), StrKey(Word(4, 14)) >>

BarData ==
    UNION {{d \in [1..n -> [key : Range(BarKeys), count : 0..MaxCount]] :
               \A i \in 1..n : d[i].key = BarKeys[i]} :
           n \in 0..MaxCats}

\* the one-element missing-count list, or a list without its element
MissingLists == {<< >>} \cup {<< m >> : m \in 0..MaxMissing}

\* Example 1 of the specification
BarExample ==
    [data |-> << [key |-> StrKey(<< "a" >>), count |-> 10],
                 [key |-> StrKey(<< "b" >>), count |-> 5],
                 [key |-> StrKey(<< "c" >>), count |-> 1] >>,
     missing |-> << 0 >>, bars |-> 2, ascending |-> FALSE]

BarArgs ==
    [data : BarData, missing : MissingLists, bars : BarsRange, ascending : BOOLEAN]
        \cup {BarExample}

EdgePools == {<< 0, 1, 2, 3, 4, 5 >>, << 1, 3, 4, 8, 9, 12 >>}

HistFreqs == UNION {[1..k -> 0..MaxCount] : k \in 0..MaxBins}

HistEdges == {SubSeq(e, 1, n) : e \in EdgePools, n \in 0..(MaxBins + 1)}

\* Example 3 of the specification
HistExample ==
    [hist_array |-> << 2, 3 >>, bins_array |-> << 0, 1, 2 >>, missing |-> << 0 >>,
     orig_df_len |-> 5]

HistArgs ==
    [hist_array : HistFreqs, bins_array : HistEdges, missing : MissingLists,
     orig_df_len : 0..MaxRows] \cup {HistExample}

QQArgs ==
    { [theory |-> << -1, 0, 1 >>, sample |-> << 2, 3, 5 >>],
      [theory |-> << 0 >>, sample |-> << -3 >>],
      [theory |-> << >>, sample |-> << >>],
      [theory |-> << 1, 2 >>] }

Num(v) == [val |-> v, null |-> FALSE]

NaNVal == [val |-> 0, null |-> TRUE]

KdeArgs ==
    { << Num(1), Num(2), Num(4) >>, << NaNVal, Num(3), Num(5) >>, << Num(2), Num(2) >>,
      << Num(7) >>, << NaNVal >>, << >> }

BoxCats == << "g1", "g2", "g3", "g4" >>

BoxSummaries ==
    { [lw |-> 0, tf |-> 1, fy |-> 2, sf |-> 4, uw |-> 5],
      [lw |-> 1, tf |-> 1, fy |-> 1, sf |-> 1, uw |-> 1],
      [lw |-> 0, tf |-> 3, fy |-> 2, sf |-> 2, uw |-> 4] }

\* a record without its quartiles
BoxBroken == [lw |-> 0, fy |-> 2, uw |-> 5]

BoxOutlierLists == {<< >>, << 7 >>, << -1, 9 >>}

BoxData ==
    UNION {{d \in [1..n -> [cat : Range(BoxCats), summary : BoxSummaries,
                            outliers : BoxOutlierLists]] :
               \A i \in 1..n : d[i].cat = BoxCats[i]}
           \cup {[i \in 1..n |-> [cat |-> BoxCats[i], summary |-> BoxBroken,
                                  outliers |-> << >>]]} :
           n \in 0..MaxBoxCats}

BoxWidths == {[num |-> 1, den |-> 4], [num |-> 1, den |-> 2]}

BoxArgs == [data : BoxData, box_width : BoxWidths]

(***************************************************************************)
(* Inputs of the interleaving specification: per operation, calls that     *)
(* return and calls that raise.                                            *)
(***************************************************************************)
SeqPieArgs ==
    { [data |-> << [cat |-> "x", count |-> 3, null |-> FALSE],
                   [cat |-> "y", count |-> 1, null |-> FALSE] >>,
       bars |-> 1, ascending |-> FALSE] }

SeqBarArgs == {BarExample, [BarExample EXCEPT !.missing = << >>]}

SeqHistArgs == {HistExample, [HistExample EXCEPT !.missing = << 1 >>, !.orig_df_len = 0]}

SeqQQArgs == {[theory |-> << 0 >>, sample |-> << -3 >>], [theory |-> << 1, 2 >>]}

SeqKdeArgs == {<< Num(1), Num(2), Num(4) >>, << Num(7) >>, << NaNVal >>}

SeqBoxArgs ==
    { [data |-> << [cat |-> "g1", summary |-> [lw |-> 0, tf |-> 1, fy |-> 2, sf |-> 4, uw |-> 5],
                    outliers |-> << 7 >>] >>,
       box_width |-> [num |-> 1, den |-> 4]],
      [data |-> << >>, box_width |-> [num |-> 1, den |-> 4]] }

(***************************************************************************)
(* Specifications.                                                         *)
(***************************************************************************)
Init ==
    /\ flags = [f \in FlagNames |-> FALSE]
    /\ palette = Category20c
    /\ call = [t \in Threads |-> NoCall]
    /\ ret = [t \in Threads |-> NoRet]

\* Calls from two threads on one renderer, in any order and interleaving.
Next ==
    \E t \in Threads :
        \/ \E a \in SeqPieArgs : pie_viz(t, a.data, a.bars, a.ascending)
        \/ \E a \in SeqBarArgs : bar_viz(t, a.data, a.missing, a.bars, a.ascending)
        \/ \E a \in SeqHistArgs : hist_viz(t, a.hist_array, a.bins_array, a.missing, a.orig_df_len)
        \/ \E a \in SeqQQArgs : qqnorm_viz(t, a)
        \/ \E a \in SeqKdeArgs : hist_kde_viz(t, a)
        \/ \E a \in SeqBoxArgs : box_viz(t, a.data, a.box_width)
        \/ pie_viz_return(t)
        \/ bar_viz_return(t)
        \/ hist_viz_return(t)
        \/ qqnorm_viz_return(t)
        \/ hist_kde_viz_return(t)
        \/ box_viz_return(t)

Spec == Init /\ [][Next]_vars

Fresh == \A t \in Threads : call[t] = NoCall

\* One call on a fresh renderer, over all the bounded inputs.
NextCall ==
    \/ Fresh /\ \E a \in PieArgs : pie_viz("t1", a.data, a.bars, a.ascending)
    \/ Fresh /\ \E a \in BarArgs : bar_viz("t1", a.data, a.missing, a.bars, a.ascending)
    \/ Fresh /\ \E a \in HistArgs :
                    hist_viz("t1", a.hist_array, a.bins_array, a.missing, a.orig_df_len)
    \/ Fresh /\ \E a \in QQArgs : qqnorm_viz("t1", a)
    \/ Fresh /\ \E a \in KdeArgs : hist_kde_viz("t1", a)
    \/ Fresh /\ \E a \in BoxArgs : box_viz("t1", a.data, a.box_width)
    \/ pie_viz_return("t1")
    \/ bar_viz_return("t1")
    \/ hist_viz_return("t1")
    \/ qqnorm_viz_return("t1")
    \/ hist_kde_viz_return("t1")
    \/ box_viz_return("t1")

SpecCall == Init /\ [][NextCall]_vars

(***************************************************************************)
(* Properties.                                                             *)
(***************************************************************************)
\* thread t's latest call was operation op and returned its chart
Returned(t, op) == call[t].op = op /\ ret[t].status = "ok"

\* q is the float n / d for integers n and d > 0
RatIs(q, n, d) == q.den # 0 /\ q.num * d = n * q.den

\* q is what count / total * 100 evaluates to, nan and inf included
PctOf(q, count, total) ==
    IF total = 0 THEN q.den = 0 /\ Sign(q.num) = Sign(count)
    ELSE RatIs(q, count * 100, total)

Le(a, b, ascending) == IF ascending THEN a <= b ELSE a >= b

\* the mapping's entries whose count is not missing
PieKept(data) == SelectSeq(data, LAMBDA e : ~e.null)

PieTopNOther(data, bars, ascending, rows) ==
    LET kept == PieKept(data)
        n == Len(kept)
        shown == IF n > bars THEN bars ELSE n
        shownCats == {rows[i].cat : i \in 1..shown}
    IN  /\ Len(rows) = IF n > bars THEN bars + 1 ELSE n
        /\ \A i \in 1..shown :
              \E j \in 1..n : kept[j].cat = rows[i].cat /\ kept[j].count = rows[i].count
        /\ \A i, k \in 1..shown : rows[i].cat = rows[k].cat => i = k
        /\ \A i \in 1..(shown - 1) : Le(rows[i].count, rows[i + 1].count, ascending)
        /\ \A i \in 1..shown : \A j \in 1..n :
              kept[j].cat \notin shownCats => Le(rows[i].count, kept[j].count, ascending)
        /\ n > bars =>
              /\ rows[bars + 1].cat = "Other"
              /\ rows[bars + 1].count =
                    SumCount(kept) - SumCount(SubSeq(rows, 1, bars))
              /\ SumCount(rows) = SumCount(kept)
        /\ n <= bars => \A i \in 1..Len(rows) : rows[i].cat # "Other"

\* C1: pie_viz with bars >= 1 shows the first bars categories of the
\* non-missing entries sorted by count per the ascending flag, followed by one
\* "Other" row holding the sum of the counts not shown when there are more
\* than bars categories, and every category in sorted order with no "Other"
\* row otherwise; four categories of count 1 with bars 2 give two slices of
\* 25 percent and "Other" with count 2 at 50 percent.
C1_PieTopNOther ==
    \A t \in Threads :
        (Returned(t, "pie") /\ call[t].bars >= 1) =>
            /\ PieTopNOther(call[t].data, call[t].bars, call[t].ascending, ret[t].chart.rows)
            /\ call[t] = [op |-> "pie"] @@ PieExample =>
                  LET rows == ret[t].chart.rows
                  IN  /\ Len(rows) = 3
                      /\ rows[3].cat = "Other" /\ rows[3].count = 2
                      /\ RatIs(rows[1].percen, 25, 1)
                      /\ RatIs(rows[2].percen, 25, 1)
                      /\ RatIs(rows[3].percen, 50, 1)

C1_Witness ==
    /\ Returned("t1", "pie")
    /\ call["t1"].bars = 1
    /\ \E i \in DOMAIN call["t1"].data : call["t1"].data[i].null
    /\ Len(ret["t1"].chart.rows) = 2
    /\ ret["t1"].chart.rows[2].cat = "Other"
    /\ ret["t1"].chart.rows[2].count = MaxCount

BarShown(data, bars, ascending, rows) ==
    LET shown == Min(bars, Len(data))
        first == SubSeq(Sorted(data, ascending), 1, shown)
    IN  /\ Len(rows) = shown
        /\ \A i \in 1..shown : rows[i].count = first[i].count
        /\ \A i \in 1..(shown - 1) : Le(rows[i].count, rows[i + 1].count, ascending)
        /\ \A i \in 1..shown : \A j \in DOMAIN data :
              (\A k \in 1..shown : first[k].key # data[j].key) =>
                  Le(rows[i].count, data[j].count, ascending)

BarPercentages(data, m, rows) ==
    LET total == SumCount(data) + m
        percens == [i \in DOMAIN rows |-> rows[i].percen]
    IN  /\ \A i \in DOMAIN rows : PctOf(rows[i].percen, rows[i].count, total)
        /\ ~RatGt(RatAdd(RatSum(percens), MulInt(TrueDiv(m, total), 100)), FromInt(100))

HistRows(hist_array, bins_array, orig_df_len, rows) ==
    /\ Len(rows) = Len(hist_array)
    /\ \A i \in DOMAIN rows :
          /\ rows[i].left = bins_array[i]
          /\ rows[i].right = bins_array[i + 1]
          /\ rows[i].freq = hist_array[i]
          /\ PctOf(rows[i].percen, hist_array[i], orig_df_len)
          /\ hist_array[i] = 0 => RatEq(rows[i].percen, FromInt(0))
    /\ \A i \in 1..(Len(rows) - 1) : rows[i].right = rows[i + 1].left

\* C3: for k >= 1 frequencies and k + 1 bin edges hist_viz builds one row
\* per bin with left = edges[i], right = edges[i+1], freq = frequency[i] and
\* percentage = frequency[i] / orig_df_len * 100, a bin of frequency 0 has
\* percentage 0, and the frequencies 2, 3 over the edges 0, 1, 2 with
\* orig_df_len 5 give 40 and 60.
C3_HistRows ==
    \A t \in Threads :
        (/\ Returned(t, "hist")
         /\ Len(call[t].hist_array) >= 1
         /\ Len(call[t].bins_array) = Len(call[t].hist_array) + 1) =>
            /\ HistRows(call[t].hist_array, call[t].bins_array, call[t].orig_df_len,
                        ret[t].chart.rows)
            /\ call[t] = [op |-> "hist"] @@ HistExample =>
                  /\ RatIs(ret[t].chart.rows[1].percen, 40, 1)
                  /\ RatIs(ret[t].chart.rows[2].percen, 60, 1)

\* C4: for any pie input (a non-empty mapping of non-negative counts, a
\* positive slice limit) the percentages of the displayed rows sum to 100
\* and the wedge angles to one full turn, 2 * pi.
C4_PiePercentagesSumTo100 ==
    \A t \in Threads :
        (Returned(t, "pie") /\ call[t].bars >= 1 /\ PieKept(call[t].data) # << >>) =>
            LET rows == ret[t].chart.rows
            IN  /\ RatEq(RatSum([i \in DOMAIN rows |-> rows[i].percen]), FromInt(100))
                /\ RatEq(RatSum([i \in DOMAIN rows |-> rows[i].angle]), FromInt(2))

BoxGeometry(data, box_width, rows) ==
    /\ Len(rows) = Len(data)
    /\ \A i \in DOMAIN rows :
          LET tf == data[i].summary.tf
              sf == data[i].summary.sf
          IN  /\ rows[i].cat = data[i].cat
              /\ rows[i].x = i
              /\ RatIs(rows[i].h, sf - tf, 1)
              /\ RatIs(rows[i].y, tf + sf, 2)
              /\ rows[i].w = box_width
              /\ RatIs(rows[i].x0, 2 * i * box_width.den - box_width.num, 2 * box_width.den)
              /\ RatIs(rows[i].x1, 2 * i * box_width.den + box_width.num, 2 * box_width.den)
              /\ Len(rows[i].outliers) = Len(data[i].outliers)
              /\ \A j \in DOMAIN rows[i].outliers :
                    /\ rows[i].outliers[j].x = i
                    /\ rows[i].outliers[j].y = data[i].outliers[j]

\* C5: box_viz gives the i-th category in input order the x-position i (so
\* 1..N without gap or repeat), the box height sf - tf, the centre
\* (tf + sf) / 2, the width box_width, the extent x - box_width/2 ..
\* x + box_width/2, and puts every outlier at its category's x-position.
C5_BoxGeometry ==
    \A t \in Threads :
        Returned(t, "box") =>
            BoxGeometry(call[t].data, call[t].box_width, ret[t].chart.rows)

C5_Witness ==
    /\ Returned("t1", "box")
    /\ Len(ret["t1"].chart.rows) = 2
    /\ Len(ret["t1"].chart.rows[2].outliers) = 2
    /\ ret["t1"].chart.rows[1].outliers = << >>
    /\ call["t1"].data[1].summary.sf < call["t1"].data[1].summary.tf
    /\ call["t1"].box_width = [num |-> 1, den |-> 4]

\* the call's summary is not empty, its slice or bar limit is positive, and
\* the denominator of its percentages is zero
ZeroDenominator(c) ==
    \/ /\ c.op = "pie"
       /\ PieKept(c.data) # << >> /\ c.bars >= 1
       /\ SumCount(PieKept(c.data)) = 0
    \/ /\ c.op = "barplot"
       /\ c.data # << >> /\ c.bars >= 1
       /\ SumCount(c.data) + c.missing[1] = 0
    \/ /\ c.op = "hist"
       /\ Len(c.hist_array) >= 1
       /\ c.orig_df_len = 0

\* C6: a call whose percentage denominator is zero fails instead of
\* returning a chart: pie_viz when the counts sum to 0, bar_viz when the sum
\* of all counts plus the missing count is 0, hist_viz when orig_df_len is 0.
C6_ZeroDenominatorFails ==
    \A t \in Threads : ret[t].status = "ok" => ~ZeroDenominator(call[t])

\* C7: pie_viz and bar_viz called (on a mapping of positive total count)
\* with bars <= 0 fail instead of returning a chart.
C7_NonPositiveBarsFails ==
    \A t \in Threads :
        (/\ ret[t].status = "ok"
         /\ call[t].op \in {"pie", "barplot"}
         /\ SumCount(IF call[t].op = "pie" THEN PieKept(call[t].data) ELSE call[t].data) > 0) =>
            call[t].bars >= 1

BarLabels(data, bars, ascending, chart) ==
    LET shown == PySlice(Sorted(data, ascending), 0, bars)
    IN  /\ Len(chart.factors) = Len(shown)
        /\ Len(chart.rows) = Len(shown)
        /\ \A i \in DOMAIN shown :
              LET str == Str(shown[i].key)
                  label == chart.factors[i]
              IN  /\ chart.rows[i].cat = label
                  /\ Len(str) > 15 =>
                        /\ Len(label) = 17
                        /\ \A k \in 1..14 : label[k] = str[k]
                        /\ \A k \in 15..17 : label[k] = "."
                  /\ Len(str) <= 15 => label = str

\* C8: bar_viz shows a category whose string form is longer than 15
\* characters as its first 14 characters followed by "...", and any other
\* category as its string form; one label per bar, in the order of the bars.
C8_BarLabelTruncation ==
    \A t \in Threads :
        Returned(t, "barplot") =>
            BarLabels(call[t].data, call[t].bars, call[t].ascending, ret[t].chart)

C8_Witness ==
    /\ Returned("t1", "barplot")
    /\ Len(ret["t1"].chart.factors) = 3
    /\ ret["t1"].chart.factors[1] = Word(0, 14) \o << ".", ".", "." >>
    /\ ret["t1"].chart.factors[2] = Word(1, 15)
    /\ ret["t1"].chart.factors[3] = << "4", "2" >>

\* a call of the operation that owns flag f completes without error
Completes(f) ==
    \E t \in Threads : call[t].op = f /\ ret[t].status = "running" /\ ret'[t].status = "ok"

FlagStep ==
    \A f \in FlagNames :
        /\ Completes(f) => flags'[f]
        /\ ~Completes(f) => flags'[f] = flags[f]
        /\ flags[f] => flags'[f]

\* C9: each of the six flags is false initially, becomes true exactly when
\* a call of its own operation completes without error, is never set back,
\* is not changed by a call of another operation nor by a call that fails,
\* and is true after concurrent successful calls of its operation.
C9_FlagsSetOnlyByOwnSuccess ==
    /\ \A f \in FlagNames : ~flags[f]
    /\ [][FlagStep]_vars
    /\ [](\A t \in Threads : ret[t].status = "ok" => flags[call[t].op])

C9_Witness ==
    /\ Returned("t1", "pie")
    /\ call["t2"].op = "pie" /\ ret["t2"].status = "running"
    /\ flags["pie"] /\ flags["barplot"]
    /\ ~flags["hist"] /\ ~flags["box"] /\ ~flags["qqnorm"] /\ ~flags["kde"]

\* C10: apart from the flags nothing that outlives a call differs from its
\* initial value: the Category20c table pie_viz reads keeps its keys and
\* values.
C10_PaletteUnchanged == palette = Category20c

====
